---- MODULE Spec2Model ----
(***************************************************************************)
(* A model of the Artb backend (Express application).                      *)
(*                                                                         *)
(* The repository holds the server in two shapes:                          *)
(*   variant 1: src/server.js lines 1-308 (removeFileSafely, escapeHtml,   *)
(*              sanitizeCsvValue, validation by typeof/trim, chatLimiter); *)
(*   variant 2: src/server.js lines 310-523, which is the same program as  *)
(*              src/unnamed/part_000 up to the prompt texts (cors, /tmp,   *)
(*              unlinkSync in the try and in the catch, no /chat route).   *)
(* The variable `variant` says which of the two is running.                *)
(*                                                                         *)
(* A text is a sequence of one-character strings; a fixed fragment of a    *)
(* template literal that holds no character any replace() looks for is     *)
(* kept as one element.  The Korean message literals of the source are     *)
(* named by ASCII tags (the module is ASCII only).                         *)
(***************************************************************************)
EXTENDS Naturals, Sequences, FiniteSets, TLC

(***************************************************************************)
(* Bounds of the model (not program constants).                            *)
(***************************************************************************)
\* requests a general specification lets arrive in one run
MaxRequests == 2
\* hits that a limiter key other than the busiest holds under sustained load
\* (SpecRate)
ProbeHits == 1
\* writes to the survey log that fail in one run
MaxWriteFaults == 1

(***************************************************************************)
(* Program constants: the limiter options.                                 *)
(***************************************************************************)
apiLimiterMax == 50
formLimiterMax == 10
chatLimiterMax == 30

VARIABLES
    variant,      \* 1 or 2: which server file is running
    env,          \* process.env: which of the four values are present
    genAI,        \* TRUE iff the GoogleGenerativeAI client was constructed
    transporter,  \* TRUE iff the nodemailer transport was constructed
    hits,         \* limiter store: hits[limiter][client] in the current window
    admitted,     \* requests of the key let through in the current window
    lapsed,       \* keys refused in a window that ran out since the last arrival
    files,        \* names of the files present in the upload directory
    csv,          \* survey_results.csv: [exists, content]
    inflight,     \* the requests being handled (each at an await or a middleware)
    done,         \* the request whose handling ended in the last step, or NoRequest
    arrived,      \* number of requests counted against MaxRequests
    surveyOk,     \* number of /survey requests answered with HTTP 200 (the
                  \* earlier runs that wrote to the log included)
    writeFaults   \* writes to the survey log that failed so far

config == <<variant, env, genAI, transporter>>
limiter == <<hits, admitted, lapsed>>
vars == <<config, limiter, files, csv, inflight, done, arrived, surveyOk, writeFaults>>

(***************************************************************************)
(* JavaScript values of a request body field.                              *)
(***************************************************************************)
Undef == [t |-> "undefined", s |-> <<>>, items |-> <<>>]
Num5 == [t |-> "number", s |-> <<"5">>, items |-> <<>>]
Str(s) == [t |-> "string", s |-> s, items |-> <<>>]
Arr(items) == [t |-> "array", s |-> <<>>, items |-> items]

IsString(v) == v.t = "string"
IsArray(v) == v.t = "array"

RECURSIVE Join(_, _)
\* Array.prototype.join on an array of texts
Join(items, sep) ==
    IF items = <<>> THEN <<>>
    ELSE IF Len(items) = 1 THEN items[1]
    ELSE items[1] \o sep \o Join(Tail(items), sep)

\* truthiness: undefined and '' are falsy; 5, a non-empty string, any array are truthy
Truthy(v) ==
    CASE v.t = "undefined" -> FALSE
      [] v.t = "string" -> v.s # <<>>
      [] OTHER -> TRUE

\* String(v), as a template literal `${v}` computes it
StringOf(v) ==
    CASE v.t = "undefined" -> <<"u", "n", "d", "e", "f", "i", "n", "e", "d">>
      [] v.t = "array" -> Join(v.items, <<",">>)
      [] OTHER -> v.s

\* the code points String.prototype.trim removes: ECMAScript WhiteSpace (TAB, VT,
\* FF, SP, NBSP, ZWNBSP and the category Zs) and LineTerminator (LF, CR, LS, PS);
\* a character that cannot be written in a string here stands as "U+XXXX"
WhiteSpace ==
    {" ", "\n", "\t", "\r", "\f", "U+000B", "U+00A0", "U+FEFF", "U+2028", "U+2029",
     "U+1680", "U+2000", "U+2001", "U+2002", "U+2003", "U+2004", "U+2005", "U+2006",
     "U+2007", "U+2008", "U+2009", "U+200A", "U+202F", "U+205F", "U+3000"}

RECURSIVE TrimStart(_)
TrimStart(s) ==
    IF s # <<>> /\ Head(s) \in WhiteSpace THEN TrimStart(Tail(s)) ELSE s

RECURSIVE TrimEnd(_)
TrimEnd(s) ==
    IF s # <<>> /\ s[Len(s)] \in WhiteSpace
    THEN TrimEnd(SubSeq(s, 1, Len(s) - 1)) ELSE s

\* String.prototype.trim
Trim(s) == TrimEnd(TrimStart(s))

RECURSIVE ReplaceAll(_, _, _)
\* s.replace(/c/g, rep): one pass, left to right, over the characters of s
ReplaceAll(s, c, rep) ==
    IF s = <<>> THEN <<>>
    ELSE (IF Head(s) = c THEN rep ELSE <<Head(s)>>) \o ReplaceAll(Tail(s), c, rep)

\* typeof v === 'string' ? v.trim() : ''
TrimmedOrEmpty(v) == IF IsString(v) THEN Trim(v.s) ELSE <<>>

\* escapeHtml: five replace passes, '&' first
escapeHtml(s) ==
    ReplaceAll(ReplaceAll(ReplaceAll(ReplaceAll(ReplaceAll(s,
        "&", <<"&", "a", "m", "p", ";">>),
        "<", <<"&", "l", "t", ";">>),
        ">", <<"&", "g", "t", ";">>),
        "\"", <<"&", "q", "u", "o", "t", ";">>),
        "'", <<"&", "#", "3", "9", ";">>)

\* sanitizeCsvValue: double every quote, wrap in quotes
sanitizeCsvValue(s) == <<"\"">> \o ReplaceAll(s, "\"", <<"\"", "\"">>) \o <<"\"">>

(***************************************************************************)
(* Startup: the service handles built from process.env.                    *)
(***************************************************************************)
EnvKeys == {"GOOGLE_API_KEY", "EMAIL_USER", "EMAIL_PASS", "RECIPIENT_EMAIL"}

InitGenAI(v, e) == e["GOOGLE_API_KEY"]

\* variant 1: EMAIL_USER && EMAIL_PASS ? createTransport(...) : null
\* variant 2: one try block; a missing GOOGLE_API_KEY throws before createTransport
InitTransporter(v, e) ==
    IF v = 1 THEN e["EMAIL_USER"] /\ e["EMAIL_PASS"]
    ELSE e["GOOGLE_API_KEY"] /\ e["EMAIL_USER"] /\ e["EMAIL_PASS"]

(***************************************************************************)
(* Routes and their limiters.                                              *)
(***************************************************************************)
UploadRoutes == {"analyze", "analyze-style"}
FormRoutes == {"survey", "preregister", "contact"}
Routes == UploadRoutes \cup {"chat"} \cup FormRoutes
Limiters == {"api", "form", "chat"}

\* app.post(route, ...) exists in the running variant
Registered(v, route) == v = 1 \/ route # "chat"

\* a faulty wiring: one limiter on every route
LimiterOfShared(v, route) == "api"

\* the limiter middleware mounted on the route
LimiterOf(v, route) ==
    IF route \in UploadRoutes THEN "api"
    ELSE IF route = "chat" THEN "chat"
    ELSE "form"

LimiterMax(l) ==
    CASE l = "api" -> apiLimiterMax
      [] l = "form" -> formLimiterMax
      [] l = "chat" -> chatLimiterMax

\* a faulty comparison: one request too many is let through
RateLimitedOffByOne(totalHits, max) == totalHits > max + 1

\* express-rate-limit: the request is refused when the incremented count exceeds max
RateLimited(totalHits, max) == totalHits > max

(***************************************************************************)
(* Responses.                                                              *)
(***************************************************************************)
NoResp == [status |-> 0, kind |-> "none", key |-> "", text |-> ""]
Json(status, key, text) == [status |-> status, kind |-> "json", key |-> key, text |-> text]
\* res.status(429).send(message) of the limiter
TooMany(l) ==
    [status |-> 429, kind |-> "text", key |-> "",
     text |-> CASE l = "api" -> "TOO_MANY_AI_REQUESTS"
                [] l = "form" -> "TOO_MANY_FORM_SUBMISSIONS"
                [] l = "chat" -> "TOO_MANY_CHAT_REQUESTS"]
\* Express' own answers: no such route; a handler that threw synchronously; an
\* error a middleware handed to next()
NotFound == [status |-> 404, kind |-> "html", key |-> "", text |-> "Cannot POST"]
ExpressError == [status |-> 500, kind |-> "html", key |-> "", text |-> "TypeError"]
CorsRejected == [status |-> 500, kind |-> "html", key |-> "", text |-> "CORS_NOT_ALLOWED"]

(***************************************************************************)
(* app.use(cors(corsOptions)): variant 2 only, ahead of express.json(), of *)
(* the limiters and of every route.                                        *)
(***************************************************************************)
\* req.headers.origin of a request that sent no Origin header
NoOrigin == ""
allowedOrigins == {"http://artb.co.kr", "https://artb.co.kr"}


\* corsOptions.origin: !origin || allowedOrigins.indexOf(origin) !== -1
OriginAllowed(origin) == origin = NoOrigin \/ origin \in allowedOrigins

\* whether the cors middleware hands the request on
PassesCors(v, origin) == v = 1 \/ OriginAllowed(origin)

\* a faulty catch block: the caught error's text goes to the client
ErrorTextLeaky(v, route, error) == error

\* the text of the catch block's { error: ... } of each route; `error`, the value
\* caught, goes to console.error only
ErrorText(v, route, error) ==
    CASE route = "analyze" -> "AI_ANALYZE_ERROR"
      [] route = "analyze-style" -> "AI_STYLE_ERROR"
      [] route = "chat" -> "AI_CHAT_ERROR"
      [] route = "survey" -> "STORAGE_ERROR"
      [] OTHER -> "PROCESS_ERROR"

(***************************************************************************)
(* Requests.                                                               *)
(***************************************************************************)
NoRequest == [rid |-> 0]
NoMail == [sent |-> FALSE, to |-> FALSE, html |-> <<>>]

NewRequest(rid, route, client, body) ==
    [rid |-> rid, route |-> route, client |-> client, body |-> body,
     origin |-> NoOrigin, \* the Origin header ("": none was sent)
     pc |-> "limiter",
     win |-> "none",      \* where the limiter's count stood: first, within, over
     file |-> 0,          \* req.file.path (0: no req.file)
     mime |-> "",         \* req.file.mimetype
     err |-> "",          \* the value the catch block caught
     resp |-> NoResp,     \* what went out with res.json / res.send
     ev |-> <<>>,         \* the side effects so far, in order
     mail |-> NoMail,     \* the mailOptions handed to sendMail
     primary |-> "",      \* how the provider call ended ("": not yet, or none made)
     uncaught |-> FALSE]  \* the handler threw, or its promise rejected

\* res.status(s).json(...): throws once a response has gone out
Send(r, resp) ==
    IF r.resp = NoResp
    THEN [r EXCEPT !.resp = resp, !.ev = Append(@, "send")]
    ELSE [r EXCEPT !.uncaught = TRUE, !.ev = Append(@, "send_throw")]

Count(seq, e) == Cardinality({i \in DOMAIN seq : seq[i] = e})
ExternalCalls(r) == Count(r.ev, "ext")
UnlinkAttempts(r) == Count(r.ev, "unlink_ok") + Count(r.ev, "unlink_fail")

(***************************************************************************)
(* The file system calls on an uploaded file.                              *)
(***************************************************************************)
\* fs.unlinkSync / fsPromises.unlink: removes the file, or throws (ENOENT when the
\* file is not there; `ok` FALSE: the file system refuses and the file stays)
Unlink(fs, f, ok) == [files |-> IF ok THEN fs \ {f} ELSE fs, ok |-> ok /\ f \in fs]

\* the request after an unlink, and whether the call threw
AfterUnlink(r, u) ==
    [r EXCEPT !.ev = Append(@, IF u.ok THEN "unlink_ok" ELSE "unlink_fail")]

(***************************************************************************)
(* Bookkeeping of the in-flight set.                                       *)
(***************************************************************************)
UsedIds == {q.rid : q \in inflight} \cup files
FreshId == CHOOSE i \in 1..(Cardinality(UsedIds) + 1) : i \notin UsedIds

\* the request goes on to its next await
Continue(r, r2) ==
    /\ inflight' = (inflight \ {r}) \cup {r2}
    /\ done' = NoRequest
\* the handler (or a middleware that answered) is over
Complete(r, r2) ==
    /\ inflight' = inflight \ {r}
    /\ done' = [r2 EXCEPT !.pc = "done"]

(***************************************************************************)
(* The limiter middleware: first on every route.                           *)
(* E is the environment of a specification: the clients, the request       *)
(* bodies and the outcomes of the calls into the file system and the       *)
(* services that it lets happen.                                           *)
(***************************************************************************)
Min(a, b) == IF a < b THEN a ELSE b

\* the limiter the first client has used most
Busiest(h) == CHOOSE l \in Limiters : \A l2 \in Limiters : h[l]["c1"] >= h[l2]["c1"]
\* the keys, other than the busiest key of the first client, that hold hits
OtherKeys(E, h) ==
    {k \in (Limiters \X E.clients) \ {<<Busiest(h), "c1">>} : h[k[1]][k[2]] > 0}

\* The load a specification lets arrive.  A general one: any request, overlapping
\* the ones in flight.  Sustained load (E.sustained): the first client drives one
\* key at a time to its limit and past it; one other key, of the same limiter or
\* of the same client, holds up to ProbeHits hits; requests overlap where the
\* limiter's answer is about to change (the key one short of max, or beyond); a
\* survey comes while the log is not there yet or when its key is used up.
LoadAllowed(E, route, l, c, h) ==
    E.sustained =>
        /\ Cardinality(OtherKeys(E, h)) <= 1
        /\ \A k \in OtherKeys(E, h) :
               /\ h[k[1]][k[2]] <= ProbeHits
               /\ k[1] = Busiest(h) \/ k[2] = "c1"
        /\ route = "survey" => ~csv.exists \/ hits[l][c] >= LimiterMax(l)
        /\ inflight = {} \/ hits[l][c] + 1 >= LimiterMax(l)

Arrive(E) ==
    \E route \in E.routes, c \in E.clients :
    \E body \in E.bodies[route], o \in E.origins :
        /\ E.counted => arrived < MaxRequests
        /\ arrived' = IF E.counted THEN arrived + 1 ELSE arrived
        /\ LET r == [NewRequest(FreshId, route, c, body) EXCEPT !.origin = o] IN
           IF ~PassesCors(variant, o)
           THEN \* callback(new Error(...)): cors calls next(err), Express answers
                /\ E.sustained => inflight = {}
                /\ inflight' = inflight
                /\ done' = [Send(r, CorsRejected) EXCEPT !.pc = "done"]
                /\ UNCHANGED limiter
           ELSE IF ~Registered(variant, route)
           THEN /\ E.sustained => inflight = {}
                /\ inflight' = inflight
                /\ done' = [Send(r, NotFound) EXCEPT !.pc = "done"]
                /\ UNCHANGED limiter
           ELSE LET l == LimiterOf(variant, route)
                    totalHits == hits[l][c] + 1
                    \* the store counts on; the model keeps the count up to max + 1
                    counted == [hits EXCEPT ![l][c] = Min(totalHits, LimiterMax(l) + 1)]
                    r1 == [r EXCEPT !.win = IF <<l, c>> \in lapsed THEN "renewed"
                                             ELSE IF totalHits = 1 THEN "first"
                                             ELSE IF totalHits > LimiterMax(l) THEN "over"
                                             ELSE "within"]
                IN  /\ LoadAllowed(E, route, l, c, counted)
                    /\ hits' = counted
                    /\ lapsed' = {}
                    /\ IF RateLimited(totalHits, LimiterMax(l))
                       THEN /\ inflight' = inflight
                            /\ admitted' = admitted
                            /\ done' = [Send(r1, TooMany(l)) EXCEPT !.pc = "done"]
                       ELSE /\ inflight' = inflight \cup
                                {[r1 EXCEPT !.pc = IF route \in UploadRoutes
                                                   THEN "upload" ELSE "handler"]}
                            /\ admitted' = [admitted EXCEPT ![l][c] = @ + 1]
                            /\ done' = NoRequest
        /\ UNCHANGED <<config, files, csv, writeFaults, surveyOk>>

\* the limiter's window of one key runs out: its count starts again
WindowElapse ==
    \E l \in Limiters : \E c \in DOMAIN hits[l] :
        /\ hits[l][c] > 0
        /\ hits' = [hits EXCEPT ![l][c] = 0]
        /\ admitted' = [admitted EXCEPT ![l][c] = 0]
        /\ lapsed' = IF hits[l][c] > LimiterMax(l) THEN lapsed \cup {<<l, c>>} ELSE lapsed
        /\ done' = NoRequest
        /\ UNCHANGED <<config, files, csv, writeFaults, inflight, arrived, surveyOk>>

(***************************************************************************)
(* upload.single('image'): multer with `dest` only, no fileFilter, stores  *)
(* the part named image under a fresh name, whatever its declared type.    *)
(***************************************************************************)
\* what Express' error handler sends when multer hands it a MulterError
MulterError == [status |-> 500, kind |-> "html", key |-> "", text |-> "MulterError"]

\* whether multer refuses the request: a file part under a field name other
\* than image (LIMIT_UNEXPECTED_FILE), met before any part named image
UploadFails(r) == r.body.stray

\* whether multer writes a file for the request
UploadStores(r) == r.body.image

Upload ==
    \E r \in inflight :
        /\ r.pc = "upload"
        /\ IF UploadFails(r)
           THEN \* next(err): no handler of the route runs, Express answers
                /\ files' = files
                /\ Complete(r, Send([r EXCEPT !.err = "MulterError"], MulterError))
           ELSE IF UploadStores(r)
           THEN /\ files' = files \cup {r.rid}
                /\ Continue(r, [r EXCEPT !.pc = "handler", !.file = r.rid,
                                         !.mime = r.body.mime,
                                         !.ev = Append(@, "write")])
           ELSE /\ files' = files
                /\ Continue(r, [r EXCEPT !.pc = "handler"])
        /\ UNCHANGED <<config, limiter, csv, writeFaults, arrived, surveyOk>>

(***************************************************************************)
(* POST /analyze and /analyze-style, variant 1 (server.js 106-169).        *)
(***************************************************************************)
SuccessKey(route) ==
    CASE route = "analyze" -> "feedback"
      [] route = "analyze-style" -> "style_feedback"
      [] route = "chat" -> "reply"
      [] OTHER -> "message"

\* the catch block: console.error(error); res.status(500).json({ error: <fixed text> })
CatchRespond(r, error) ==
    Send([r EXCEPT !.err = error], Json(500, "error", ErrorText(variant, r.route, error)))

\* res.json({ <key>: text }) in the try block, after the provider answered g;
\* a text JSON.stringify refuses makes res.json throw into the catch block
RespondSuccess(r, g) ==
    IF g.kind = "ok"
    THEN Send(r, Json(200, SuccessKey(r.route), g.text))
    ELSE CatchRespond([r EXCEPT !.ev = Append(@, "send_throw")], "TypeError")

\* removeFileSafely(filePath): nothing at all without a path; else the unlink
\* inside try/catch, its error only logged (`tried`: unlink was called)
removeFileSafely(fs, f, ok) ==
    IF f = 0 THEN [files |-> fs, ok |-> FALSE, tried |-> FALSE]
    ELSE LET u == Unlink(fs, f, ok) IN [files |-> u.files, ok |-> u.ok, tried |-> TRUE]

\* the request after removeFileSafely returned
AfterRemove(r, u) == IF u.tried THEN AfterUnlink(r, u) ELSE r

\* up to the first await: the configuration check, the file check, readFile issued
AnalyzeEnter1 ==
    \E r \in inflight :
        /\ variant = 1 /\ r.route \in UploadRoutes /\ r.pc = "handler"
        /\ IF ~genAI
           THEN \* await removeFileSafely(imagePath): the handler yields, file or none
                Continue(r, [r EXCEPT !.pc = "unlink_unconfigured"])
           ELSE IF r.file = 0
                THEN Complete(r, Send(r, Json(400, "error", "NO_IMAGE")))
                ELSE Continue(r, [r EXCEPT !.pc = "readFile"])
        /\ UNCHANGED <<config, limiter, files, csv, writeFaults, arrived,
                       surveyOk>>

\* if (!genAI) { await removeFileSafely(imagePath); return res.status(500)... }
AnalyzeUnconfigured1(E) ==
    \E r \in inflight : \E ok \in E.oks :
        /\ r.pc = "unlink_unconfigured"
        /\ LET u == removeFileSafely(files, r.file, ok) IN
           /\ files' = u.files
           /\ Complete(r, Send(AfterRemove(r, u), Json(500, "error", "AI_NOT_CONFIGURED")))
        /\ UNCHANGED <<config, limiter, csv, writeFaults, arrived, surveyOk>>

\* await fsPromises.readFile(imagePath), then model.generateContent(...) is called
AnalyzeRead1(E) ==
    \E r \in inflight : \E ok \in E.oks :
        /\ r.pc = "readFile"
        /\ IF ok
           THEN Continue(r, [r EXCEPT !.pc = "generateContent", !.ev = Append(@, "ext")])
           ELSE Continue(r, [CatchRespond(r, "EIO") EXCEPT !.pc = "finally"])
        /\ UNCHANGED <<config, limiter, files, csv, writeFaults, arrived,
                       surveyOk>>

\* await model.generateContent(...); result.response.text(); res.json(...)
AnalyzeGenerate1(E) ==
    \E r \in inflight : \E g \in E.provider :
        /\ variant = 1 /\ r.route \in UploadRoutes /\ r.pc = "generateContent"
        /\ IF g.kind = "fail"
           THEN Continue(r, [CatchRespond(r, g.text) EXCEPT !.pc = "finally",
                                                            !.primary = g.kind])
           ELSE Continue(r, [RespondSuccess(r, g) EXCEPT !.pc = "finally",
                                                         !.primary = g.kind])
        /\ UNCHANGED <<config, limiter, files, csv, writeFaults, arrived,
                       surveyOk>>

\* finally { await removeFileSafely(imagePath); }
AnalyzeFinally1(E) ==
    \E r \in inflight : \E ok \in E.oks :
        /\ r.pc = "finally"
        /\ LET u == removeFileSafely(files, r.file, ok) IN
           /\ files' = u.files
           /\ Complete(r, AfterRemove(r, u))
        /\ UNCHANGED <<config, limiter, csv, writeFaults, arrived, surveyOk>>

(***************************************************************************)
(* POST /analyze and /analyze-style, variant 2 (server.js 397-468,         *)
(* part_000 88-144): synchronous file calls, the delete written twice.     *)
(***************************************************************************)
\* a faulty catch block: the answer, and no delete
CatchWithoutUnlink2(r, fs, error, ok) == [req |-> CatchRespond(r, error), files |-> fs]

\* catch (error) { console.error; res.status(500).json(...);
\*                 if (req.file && req.file.path) fs.unlinkSync(req.file.path); }
Catch2(r, fs, error, ok) ==
    LET r1 == CatchRespond(r, error) IN
    IF r1.uncaught \/ r1.file = 0
    THEN [req |-> r1, files |-> fs]
    ELSE LET u == Unlink(fs, r1.file, ok) IN
         [req |-> [AfterUnlink(r1, u) EXCEPT !.uncaught = ~u.ok], files |-> u.files]

\* the try block up to await model.generateContent(...)
AnalyzeEnter2(E) ==
    \E r \in inflight : \E readOk \in E.oks, ok \in E.oks :
        /\ variant = 2 /\ r.route \in UploadRoutes /\ r.pc = "handler"
        /\ IF ~genAI
           THEN LET c == Catch2(r, files, "NOT_INITIALIZED", ok) IN
                files' = c.files /\ Complete(r, c.req)
           ELSE IF r.file = 0
           THEN files' = files /\ Complete(r, Send(r, Json(400, "error", "NO_IMAGE")))
           ELSE IF ~readOk
           THEN LET c == Catch2(r, files, "EIO", ok) IN
                files' = c.files /\ Complete(r, c.req)
           ELSE /\ files' = files
                /\ Continue(r, [r EXCEPT !.pc = "generateContent",
                                         !.ev = Append(@, "ext")])
        /\ UNCHANGED <<config, limiter, csv, writeFaults, arrived, surveyOk>>

\* after the provider answered: text(); fs.unlinkSync(imagePath); res.json(...)
AfterGenerate2(r, fs, g, ok1, ok2) ==
    IF g.kind = "fail" THEN Catch2(r, fs, g.text, ok2)
    ELSE LET u == Unlink(fs, r.file, ok1)
             r1 == AfterUnlink(r, u)
         IN  IF ~u.ok THEN Catch2(r1, u.files, "EPERM", ok2)
             ELSE IF g.kind = "ok"
             THEN [req |-> Send(r1, Json(200, SuccessKey(r.route), g.text)),
                   files |-> u.files]
             ELSE Catch2([r1 EXCEPT !.ev = Append(@, "send_throw")], u.files,
                         "TypeError", ok2)

AnalyzeGenerate2(E) ==
    \E r \in inflight : \E g \in E.provider : \E ok1 \in E.oks, ok2 \in E.oks :
        /\ variant = 2 /\ r.route \in UploadRoutes /\ r.pc = "generateContent"
        /\ LET c == AfterGenerate2([r EXCEPT !.primary = g.kind], files, g, ok1, ok2) IN
           files' = c.files /\ Complete(r, c.req)
        /\ UNCHANGED <<config, limiter, csv, writeFaults, arrived, surveyOk>>

(***************************************************************************)
(* POST /chat (variant 1 only, server.js 172-206).                         *)
(***************************************************************************)
ChatEnter ==
    \E r \in inflight :
        /\ r.route = "chat" /\ r.pc = "handler"
        /\ IF ~genAI
           THEN Complete(r, Send(r, Json(500, "error", "AI_NOT_CONFIGURED")))
           ELSE IF TrimmedOrEmpty(r.body.message) = <<>>
           THEN Complete(r, Send(r, Json(400, "error", "NO_MESSAGE")))
           ELSE Continue(r, [r EXCEPT !.pc = "sendMessage", !.ev = Append(@, "ext")])
        /\ UNCHANGED <<config, limiter, files, csv, writeFaults, arrived,
                       surveyOk>>

\* await chat.sendMessage(fullPrompt); res.json({ reply })
ChatReply(E) ==
    \E r \in inflight : \E g \in E.provider :
        /\ r.pc = "sendMessage"
        /\ IF g.kind = "fail"
           THEN Complete(r, CatchRespond(r, g.text))
           ELSE Complete(r, RespondSuccess(r, g))
        /\ UNCHANGED <<config, limiter, files, csv, writeFaults, arrived,
                       surveyOk>>

(***************************************************************************)
(* POST /survey: one synchronous handler.                                  *)
(***************************************************************************)
\* new Date().toISOString(), character by character
Timestamp ==
    <<"2", "0", "2", "6", "-", "1", "0", "-", "3", "0", "T", "1", "0", ":", "0", "0", ":", "0", "0", ".", "0", "0", "0", "Z">>
\* 'Timestamp,Role,Interests,Feedback\\n'
CsvHeader ==
    <<"T", "i", "m", "e", "s", "t", "a", "m", "p", ",", "R", "o", "l", "e", ",", "I", "n", "t", "e", "r", "e", "s", "t", "s", ",">>
    \o <<"F", "e", "e", "d", "b", "a", "c", "k", "\n">>

RECURSIVE TrimAll(_)
\* interestsList.map((item) => String(item).trim())
TrimAll(items) ==
    IF items = <<>> THEN <<>> ELSE <<Trim(Head(items))>> \o TrimAll(Tail(items))

\* variant 1 (server.js 215-224): every field through sanitizeCsvValue
csvRow1(body) ==
    LET roleValue == TrimmedOrEmpty(body.role)
        interestsList == IF IsArray(body.interests) THEN body.interests.items
                         ELSE IF Truthy(body.interests) THEN <<StringOf(body.interests)>>
                         ELSE <<>>
        interestsText == Join(TrimAll(interestsList), <<";", " ">>)
        feedbackValue == TrimmedOrEmpty(body.feedback_text)
    IN  Timestamp \o <<",">> \o sanitizeCsvValue(roleValue) \o <<",">>
        \o sanitizeCsvValue(interestsText) \o <<",">>
        \o sanitizeCsvValue(feedbackValue) \o <<"\n">>

\* variant 2 (server.js 475-477, part_000 151-153): (feedback_text || '').replace
\* is a TypeError for a truthy value that is no string
csvRowThrows2(body) == Truthy(body.feedback_text) /\ ~IsString(body.feedback_text)

\* variant 2: role and interests go into the row as they are
csvRow2(body) ==
    LET interestsText == IF IsArray(body.interests)
                         THEN Join(body.interests.items, <<",", " ">>) ELSE <<>>
        feedbackTextSanitized ==
            <<"\"">> \o ReplaceAll(body.feedback_text.s, "\"", <<"\"", "\"">>) \o <<"\"">>
    IN  Timestamp \o <<",">> \o StringOf(body.role) \o <<",">> \o interestsText
        \o <<",">> \o feedbackTextSanitized \o <<"\n">>

\* how a write of `data` to the log can end: all of it written; the file could
\* not be opened; or the file was opened (and so exists) and the write failed
\* (ENOSPC, EFBIG, EIO) after the first n characters, any n short of all
WriteResults(data, faulty) ==
    {[ok |-> TRUE, opened |-> TRUE, n |-> Len(data)]}
    \cup IF faulty
         THEN {[ok |-> FALSE, opened |-> FALSE, n |-> 0]}
              \cup {[ok |-> FALSE, opened |-> TRUE, n |-> k] : k \in 0..(Len(data) - 1)}
         ELSE {}

\* what of the data reached the file
Written(data, o) == SubSeq(data, 1, o.n)

\* fs.writeFileSync(p, data): opens with flag 'w' (creates or empties), then writes
writeFileSync(log, data, o) ==
    IF o.opened THEN [exists |-> TRUE, content |-> Written(data, o)] ELSE log

\* fs.appendFileSync(p, data): opens with flag 'a' (creates), then writes at the end
appendFileSync(log, data, o) ==
    IF o.opened THEN [exists |-> TRUE, content |-> log.content \o Written(data, o)]
    ELSE log

\* if (!fs.existsSync(p)) fs.writeFileSync(p, header); fs.appendFileSync(p, row)
AppendRow(log, row, w, a) ==
    IF ~log.exists /\ ~w.ok THEN [csv |-> writeFileSync(log, CsvHeader, w), ok |-> FALSE]
    ELSE LET withHeader == IF log.exists THEN log ELSE writeFileSync(log, CsvHeader, w)
         IN  [csv |-> appendFileSync(withHeader, row, a), ok |-> a.ok]

Survey(E) ==
    \E r \in inflight :
        /\ r.route = "survey" /\ r.pc = "handler"
        /\ IF variant = 2 /\ csvRowThrows2(r.body)
           THEN \* thrown outside the try: Express answers
                /\ csv' = csv /\ surveyOk' = surveyOk /\ writeFaults' = writeFaults
                /\ Complete(r, Send([r EXCEPT !.err = "TypeError"], ExpressError))
           ELSE LET faulty == FALSE \in E.oks /\ writeFaults < MaxWriteFaults
                    row == IF variant = 1 THEN csvRow1(r.body) ELSE csvRow2(r.body)
                IN
                \E w \in WriteResults(CsvHeader, faulty /\ ~csv.exists) :
                \E o \in WriteResults(row, faulty /\ w.ok) :
                LET a == AppendRow(csv, row, w, o)
                IN  /\ csv' = a.csv
                    /\ writeFaults' = IF a.ok THEN writeFaults ELSE writeFaults + 1
                    /\ surveyOk' = IF a.ok THEN surveyOk + 1 ELSE surveyOk
                    /\ IF a.ok
                       THEN Complete(r, Send([r EXCEPT !.ev = Append(@, "row")],
                                             Json(200, "message", "SURVEY_OK")))
                       ELSE Complete(r, CatchRespond(r, "ENOSPC"))
        /\ UNCHANGED <<config, limiter, files, arrived>>

(***************************************************************************)
(* POST /preregister and /contact: one mail per request.                   *)
(***************************************************************************)
PreregisterHtml(email) ==
    <<"<h3>NEW_PREREGISTRATION</h3><p><strong>EMAIL:</strong> ">> \o email \o <<"</p>">>

ContactHtml(name, email, message) ==
    <<"<h3>NEW_CONTACT</h3><p><strong>FROM:</strong> ">> \o name
    \o <<"</p><p><strong>EMAIL:</strong> ">> \o email
    \o <<"</p><hr><p><strong>MESSAGE:</strong></p><p>">> \o message \o <<"</p>">>

\* what a handler decides before its await: answer now, or hand `mail` to sendMail
Answer(resp) == [answer |-> TRUE, resp |-> resp, err |-> "", html |-> <<>>]
Throw(error) == [answer |-> TRUE, resp |-> NoResp, err |-> error, html |-> <<>>]
Mail(html) == [answer |-> FALSE, resp |-> NoResp, err |-> "", html |-> html]

\* variant 1: if (!transporter || !RECIPIENT_EMAIL) -> 500; variant 2: if (!transporter) throw
MailConfigured(v) ==
    IF v = 1 THEN transporter /\ env["RECIPIENT_EMAIL"] ELSE transporter

\* variant 1 (server.js 239-257)
Preregister1(body) ==
    LET trimmedEmail == TrimmedOrEmpty(body.email) IN
    IF trimmedEmail = <<>> THEN Answer(Json(400, "error", "EMAIL_REQUIRED"))
    ELSE IF ~MailConfigured(1) THEN Answer(Json(500, "error", "EMAIL_NOT_CONFIGURED"))
    ELSE Mail(PreregisterHtml(trimmedEmail))

\* variant 2 (server.js 490-497, part_000 166-173)
Preregister2(body) ==
    IF ~MailConfigured(2) THEN Throw("NOT_INITIALIZED")
    ELSE IF ~Truthy(body.email) THEN Answer(Json(400, "error", "EMAIL_REQUIRED"))
    ELSE Mail(PreregisterHtml(StringOf(body.email)))

\* variant 1 (server.js 269-293)
Contact1(body) ==
    LET trimmedName == TrimmedOrEmpty(body.name)
        trimmedEmail == TrimmedOrEmpty(body.email)
        messageValue == TrimmedOrEmpty(body.message)
    IN  IF trimmedName = <<>> \/ trimmedEmail = <<>> \/ messageValue = <<>>
        THEN Answer(Json(400, "error", "ALL_FIELDS_REQUIRED"))
        ELSE IF ~MailConfigured(1)
        THEN Answer(Json(500, "error", "EMAIL_NOT_CONFIGURED"))
        ELSE Mail(ContactHtml(escapeHtml(trimmedName), escapeHtml(trimmedEmail),
                              ReplaceAll(escapeHtml(messageValue), "\n", <<"<br>">>)))

\* variant 2 (server.js 504-511, part_000 180-187); message.replace is a TypeError
\* for a truthy message that is no string
Contact2(body) ==
    IF ~MailConfigured(2) THEN Throw("NOT_INITIALIZED")
    ELSE IF ~Truthy(body.name) \/ ~Truthy(body.email) \/ ~Truthy(body.message)
    THEN Answer(Json(400, "error", "ALL_FIELDS_REQUIRED"))
    ELSE IF ~IsString(body.message) THEN Throw("TypeError")
    ELSE Mail(ContactHtml(StringOf(body.name), StringOf(body.email),
                          ReplaceAll(body.message.s, "\n", <<"<br>">>)))

MailDecision(v, route, body) ==
    CASE v = 1 /\ route = "preregister" -> Preregister1(body)
      [] v = 1 /\ route = "contact" -> Contact1(body)
      [] v = 2 /\ route = "preregister" -> Preregister2(body)
      [] v = 2 /\ route = "contact" -> Contact2(body)

\* the handler up to await transporter.sendMail(mailOptions)
MailEnter ==
    \E r \in inflight :
        /\ r.route \in {"preregister", "contact"} /\ r.pc = "handler"
        /\ LET d == MailDecision(variant, r.route, r.body) IN
           IF d.answer
           THEN IF d.err = "" THEN Complete(r, Send(r, d.resp))
                ELSE Complete(r, CatchRespond(r, d.err))
           ELSE Continue(r, [r EXCEPT !.pc = "sendMail", !.ev = Append(@, "ext"),
                                      !.mail = [sent |-> TRUE,
                                                to |-> env["RECIPIENT_EMAIL"],
                                                html |-> d.html]])
        /\ UNCHANGED <<config, limiter, files, csv, writeFaults, arrived,
                       surveyOk>>

MailOkText(route) == IF route = "preregister" THEN "PREREGISTER_OK" ELSE "CONTACT_OK"

\* await transporter.sendMail(mailOptions); res.status(200).json(...)
MailSent(E) ==
    \E r \in inflight : \E m \in E.mailer :
        /\ r.pc = "sendMail"
        /\ IF m.kind = "fail"
           THEN Complete(r, CatchRespond(r, m.text))
           ELSE Complete(r, Send(r, Json(200, "message", MailOkText(r.route))))
        /\ UNCHANGED <<config, limiter, files, csv, writeFaults, arrived,
                       surveyOk>>

(***************************************************************************)
(* The inputs of the specifications.                                       *)
(***************************************************************************)
Blank == <<" ">>
Plain == <<" ", "a">>
Markup == <<"<", "&", ">", "\"", "'">>
TwoLines == <<"a", "\n", "b">>
FormFeed == <<"\f">>
Texts == {<<>>, Blank, FormFeed, Plain, Markup, TwoLines}
FieldValues == {Undef, Num5} \cup {Str(s) : s \in Texts}

EmptyBody ==
    [image |-> FALSE, stray |-> FALSE, mime |-> "", name |-> Undef, email |-> Undef, message |-> Undef,
     role |-> Undef, interests |-> Undef, feedback_text |-> Undef]

ImageBodies ==
    {EmptyBody, [EmptyBody EXCEPT !.stray = TRUE]}
    \cup {[EmptyBody EXCEPT !.image = TRUE, !.mime = m] : m \in {"image/png", "text/plain"}}
ContactBase ==
    [EmptyBody EXCEPT !.name = Str(Markup), !.email = Str(Markup), !.message = Str(Markup)]
ContactBodies ==
    {[ContactBase EXCEPT !.name = v] : v \in FieldValues}
    \cup {[ContactBase EXCEPT !.email = v] : v \in FieldValues}
    \cup {[ContactBase EXCEPT !.message = v] : v \in FieldValues}
SurveyBase ==
    [EmptyBody EXCEPT !.role = Str(Plain), !.interests = Arr(<<Plain, <<"b">>>>),
                      !.feedback_text = Str(Markup)]
SurveyBodies ==
    {[SurveyBase EXCEPT !.role = v] : v \in {Undef, Str(TwoLines), Str(Markup), Str(Plain)}}
    \cup {[SurveyBase EXCEPT !.interests = v] : v \in {Undef, Str(Plain)}}
    \cup {[SurveyBase EXCEPT !.feedback_text = v] : v \in {Undef, Num5, Str(TwoLines)}}

AllBodies ==
    [route \in Routes |->
        CASE route \in UploadRoutes -> ImageBodies
          [] route = "chat" -> {[EmptyBody EXCEPT !.message = v] : v \in FieldValues}
          [] route = "preregister" -> {[EmptyBody EXCEPT !.email = v] : v \in FieldValues}
          [] route = "contact" -> ContactBodies
          [] route = "survey" -> SurveyBodies]

\* one well-formed request per route
NominalBodies ==
    [route \in Routes |->
        CASE route \in UploadRoutes ->
                {[EmptyBody EXCEPT !.image = TRUE, !.mime = "image/png"]}
          [] route = "chat" -> {[EmptyBody EXCEPT !.message = Str(Plain)]}
          [] route = "preregister" -> {[EmptyBody EXCEPT !.email = Str(Plain)]}
          [] route = "contact" -> {ContactBase}
          [] route = "survey" -> {SurveyBase}]

ProviderErrors == {"QUOTA_EXCEEDED", "API_KEY_INVALID"}
Outcomes ==
    {[kind |-> "ok", text |-> "PROVIDER_TEXT"], [kind |-> "unserializable", text |-> ""]}
    \cup {[kind |-> "fail", text |-> e] : e \in ProviderErrors}
MailOutcomes ==
    {[kind |-> "ok", text |-> ""]} \cup {[kind |-> "fail", text |-> e] : e \in ProviderErrors}

MailRoutes == {"preregister", "contact"}
AllConfigs == [EnvKeys -> BOOLEAN]
\* the mail values present, GOOGLE_API_KEY present or not
AiConfigs == {e \in AllConfigs : e["EMAIL_USER"] /\ e["EMAIL_PASS"] /\ e["RECIPIENT_EMAIL"]}
FullConfig == {[k \in EnvKeys |-> TRUE]}
\* EMAIL_USER and EMAIL_PASS both present or both missing
PairedConfigs == {e \in AllConfigs : e["EMAIL_USER"] = e["EMAIL_PASS"]}

\* the environment of the general specifications: one client, every fault, at most
\* MaxRequests requests; `routes` and `bodies` say what the client sends
Client(routes, bodies) ==
    [routes |-> routes, clients |-> {"c1"}, bodies |-> bodies,
     origins |-> {NoOrigin}, oks |-> BOOLEAN,
     provider |-> Outcomes, mailer |-> MailOutcomes, counted |-> TRUE,
     sustained |-> FALSE]

\* two clients sending well-formed requests without end, the services answering
Load ==
    [routes |-> Routes, clients |-> {"c1", "c2"}, bodies |-> NominalBodies,
     origins |-> {NoOrigin},
     oks |-> {TRUE}, provider |-> {[kind |-> "ok", text |-> "PROVIDER_TEXT"]},
     mailer |-> {[kind |-> "ok", text |-> ""]}, counted |-> FALSE,
     sustained |-> TRUE]

(***************************************************************************)
(* The specifications.                                                     *)
(***************************************************************************)
\* the name of an upload an earlier run of the server left behind
LeftFile == 9

\* what the process finds on disk when it starts (nothing in the code clears the
\* upload directory or the log): a clean disk, or the upload whose delete was
\* refused and the log with the row of the one /survey request answered 200 in
\* an earlier run
Disks(v) ==
    {[files |-> {}, csv |-> [exists |-> FALSE, content |-> <<>>], answered |-> 0],
     [files |-> {LeftFile},
      csv |-> [exists |-> TRUE,
               content |-> CsvHeader \o (IF v = 1 THEN csvRow1(SurveyBase)
                                                  ELSE csvRow2(SurveyBase))],
      answered |-> 1]}

Start(E, configs) ==
    /\ variant \in {1, 2}
    /\ env \in configs
    /\ genAI = InitGenAI(variant, env)
    /\ transporter = InitTransporter(variant, env)
    /\ hits = [l \in Limiters |-> [c \in E.clients |-> 0]]
    /\ admitted = [l \in Limiters |-> [c \in E.clients |-> 0]]
    /\ lapsed = {}
    /\ \E d \in Disks(variant) :
           files = d.files /\ csv = d.csv /\ surveyOk = d.answered
    /\ inflight = {}
    /\ done = NoRequest
    /\ arrived = 0
    /\ writeFaults = 0

AnalyzeSteps(E) ==
    \/ Upload
    \/ AnalyzeEnter1
    \/ AnalyzeUnconfigured1(E)
    \/ AnalyzeRead1(E)
    \/ AnalyzeGenerate1(E)
    \/ AnalyzeFinally1(E)
    \/ AnalyzeEnter2(E)
    \/ AnalyzeGenerate2(E)

\* the upload routes: every body, every fault
Uploads == Client(UploadRoutes, AllBodies)
InitUpload == Start(Uploads, AiConfigs)
NextUpload == Arrive(Uploads) \/ AnalyzeSteps(Uploads)
SpecUpload == InitUpload /\ [][NextUpload]_vars

\* /chat, /preregister, /contact: every body, every configuration
Forms == Client(MailRoutes \cup {"chat"}, AllBodies)
InitForms == Start(Forms, AllConfigs)
NextForms ==
    \/ Arrive(Forms)
    \/ ChatEnter
    \/ ChatReply(Forms)
    \/ MailEnter
    \/ MailSent(Forms)
SpecForms == InitForms /\ [][NextForms]_vars

\* every route that calls a service, well-formed requests, every fault
Services == Client(Routes \ {"survey"}, NominalBodies)
InitServices == Start(Services, PairedConfigs)
NextServices ==
    \/ Arrive(Services)
    \/ AnalyzeSteps(Services)
    \/ ChatEnter
    \/ ChatReply(Services)
    \/ MailEnter
    \/ MailSent(Services)
SpecServices == InitServices /\ [][NextServices]_vars

\* /survey alone
Surveys == Client({"survey"}, AllBodies)
InitSurvey == Start(Surveys, FullConfig)
NextSurvey == Arrive(Surveys) \/ Survey(Surveys)
SpecSurvey == InitSurvey /\ [][NextSurvey]_vars

\* sustained load on every route: the limiters reach their limits
InitRate == Start(Load, AiConfigs)
NextRate ==
    \/ Arrive(Load)
    \/ WindowElapse
    \/ AnalyzeSteps(Load)
    \/ ChatEnter
    \/ ChatReply(Load)
    \/ MailEnter
    \/ MailSent(Load)
    \/ Survey(Load)
SpecRate == InitRate /\ [][NextRate]_vars

\* Origin headers a client sends: none, the allowed ones, others
Origins ==
    {NoOrigin, "http://artb.co.kr", "https://artb.co.kr",
     "https://artb.co.kr.evil.example"}

\* browsers and other clients, any Origin header: one route that stores a file and
\* calls the provider, the one that appends to the log, one that sends mail;
\* well-formed requests, the services and the file system answering
Browsers ==
    [routes |-> {"analyze", "survey", "contact"}, clients |-> {"c1"},
     bodies |-> NominalBodies, origins |-> Origins, oks |-> {TRUE},
     provider |-> {[kind |-> "ok", text |-> "PROVIDER_TEXT"]},
     mailer |-> {[kind |-> "ok", text |-> ""]}, counted |-> TRUE,
     sustained |-> FALSE]
InitOrigin == Start(Browsers, AiConfigs)
NextOrigin ==
    \/ Arrive(Browsers)
    \/ AnalyzeSteps(Browsers)
    \/ Survey(Browsers)
    \/ MailEnter
    \/ MailSent(Browsers)
SpecOrigin == InitOrigin /\ [][NextOrigin]_vars

(***************************************************************************)
(* The properties.                                                         *)
(***************************************************************************)
\* the requests the server has seen and still knows of
Requests == inflight \cup (IF done.rid = 0 THEN {} ELSE {done})
Finished == done.rid # 0 /\ done.pc = "done"
Rejected(r) == r.resp.status = 429
ErrorJson(r, status) ==
    r.resp.status = status /\ r.resp.kind = "json" /\ r.resp.key = "error"

\* C1, as the code has it: when the handler of an /analyze or /analyze-style
\* request that stored an upload is over, a delete of the file has been tried on
\* every exit path, and the file is still in storage only if every delete tried
\* on it was refused by the file system.
FileReleasedUnlessDeleteRefused ==
    (Finished /\ done.file # 0) =>
        /\ UnlinkAttempts(done) >= 1
        /\ done.file \in files => Count(done.ev, "unlink_ok") = 0

\* C1 is met on a failure path: the provider call failed and the file is gone
FileReleasedAfterFailure ==
    /\ Finished /\ done.file # 0 /\ done.file \notin files
    /\ done.err \in ProviderErrors

\* C1 as stated: the stored upload is gone when the handler is over
FileGoneOnEveryExit ==
    (Finished /\ done.file # 0) => done.file \notin files

\* C2 as stated: an /analyze or /analyze-style request that carries no image
\* file is answered with HTTP 400 and a JSON error and calls no service,
\* whatever the configuration
NoImageAlways400 ==
    (Finished /\ done.route \in UploadRoutes /\ ~done.body.image /\ ~Rejected(done)) =>
        ErrorJson(done, 400) /\ ExternalCalls(done) = 0

\* C10 as stated: an upload whose declared type is no image type is never written
\* to storage, never sent to the provider, and is answered with a 4xx status.
NonImageRejected ==
    \A r \in Requests :
        (r.route \in UploadRoutes /\ r.body.image /\ r.body.mime = "text/plain") =>
            /\ Count(r.ev, "write") = 0
            /\ ExternalCalls(r) = 0
            /\ r.pc = "done" => r.resp.status \in 400..499

\* C3: for each limiter (apiLimiter 50, formLimiter 10, chatLimiter 30) and each
\* client, the requests let through in one window never exceed max, whatever the
\* overlap of the requests; a request that comes once max requests of the window
\* have been counted is answered 429 before multer or the handler ran (no file,
\* no service call, no mail, no CSV row); the first request after the window of
\* a used-up key ran out is let through.
RateLimitEnforced ==
    /\ \A c \in DOMAIN admitted["api"] :
           /\ admitted["api"][c] <= apiLimiterMax
           /\ admitted["form"][c] <= formLimiterMax
           /\ admitted["chat"][c] <= chatLimiterMax
    /\ \A r \in Requests :
           /\ r.win = "over" =>
                  /\ Rejected(r) /\ r.pc = "done"
                  /\ r.ev = <<"send">> /\ r.file = 0 /\ ~r.mail.sent
           /\ r.win = "renewed" => ~Rejected(r)

\* C3's case: the AI limiter refused the client, its window ran out, and the
\* client's next request was handled and answered
AdmittedAfterWindow ==
    /\ Finished /\ done.route \in UploadRoutes /\ done.win = "renewed"
    /\ done.resp.status = 200 /\ ExternalCalls(done) = 1

\* the route classes of the limiters
AiRoutes == UploadRoutes \cup {"chat"}
AiLimiters == {"api", "chat"}
\* the requests that come in with a step: let through to the handlers, or refused
Admitting == {r \in inflight' : \A q \in inflight : q.rid # r.rid}
Refusing == IF done'.rid # 0 /\ Rejected(done') THEN {done'} ELSE {}

\* C4: a request on a route of one class leaves the counters of the other class
\* (and of every other client) as they were, and is refused only when a counter
\* of its own class is used up: with the form counter used up the client is still
\* let through on the AI routes that exist, and the other way round.
LimitersIndependent ==
    [][\A r \in Admitting \cup Refusing :
          LET own == IF r.route \in AiRoutes THEN AiLimiters ELSE {"form"} IN
          /\ \A l \in Limiters \ own : hits'[l] = hits[l]
          /\ \A l \in Limiters : \A c \in DOMAIN hits[l] :
                 c # r.client => hits'[l][c] = hits[l][c]
          /\ (\A l \in own : hits[l][r.client] < LimiterMax(l)) => ~Rejected(r)
      ]_vars

\* C4's case: the client has used up the form limiter and is being handled on an
\* upload route
AdmittedWhileFormUsedUp ==
    \E r \in inflight :
        /\ r.route \in UploadRoutes /\ r.client = "c1" /\ r.pc = "upload"
        /\ hits["form"]["c1"] > formLimiterMax

\* C5: when the inference or the mail call fails, the answer is HTTP 500 with a
\* JSON {error} whose text is the route's fixed text: it is the answer the same
\* request gets for any other error of the provider, and none of the provider's
\* texts.
ProviderFailureOpaque ==
    (Finished /\ done.err \in ProviderErrors) =>
        /\ ErrorJson(done, 500)
        /\ done.resp.text \notin ProviderErrors
        /\ \A e \in ProviderErrors :
               done.resp = Json(500, "error", ErrorText(variant, done.route, e))

\* C5's case: sendMail rejected and the client got the fixed text
MailFailureAnswered ==
    /\ Finished /\ done.route \in MailRoutes /\ done.mail.sent
    /\ done.err = "QUOTA_EXCEEDED" /\ ErrorJson(done, 500)

\* the requests the claims on configuration and on escaping are about: handled by
\* a route that exists, with a well-formed body
WellFormed(r) ==
    /\ Registered(variant, r.route) /\ ~Rejected(r)
    /\ r.body \in NominalBodies[r.route]
\* the configuration values a route depends on are all there
Configured(route) ==
    IF route \in AiRoutes THEN env["GOOGLE_API_KEY"]
    ELSE IF route \in MailRoutes
    THEN env["EMAIL_USER"] /\ env["EMAIL_PASS"] /\ env["RECIPIENT_EMAIL"]
    ELSE TRUE

\* C6 as stated, for well-formed requests: a route that lacks one of its
\* configuration values calls no service and answers 500 with a JSON {error}; a
\* route whose values are all there is not switched off by a value it does not
\* depend on (it is never answered 500 without its service having been called).
ConfigDegradesDependentsOnly ==
    \A r \in Requests :
        WellFormed(r) =>
            /\ ~Configured(r.route) =>
                   /\ ExternalCalls(r) = 0
                   /\ r.pc = "done" => ErrorJson(r, 500)
            /\ (Configured(r.route) /\ r.pc = "done" /\ r.resp.status = 500) =>
                   ExternalCalls(r) >= 1

\* the markup characters of HTML; a text holds one character per element, and the
\* fixed parts of a mail body are elements of their own
MarkupChars == {"<", ">", "\"", "'"}
EntityTails ==
    {<<"a", "m", "p", ";">>, <<"l", "t", ";">>, <<"g", "t", ";">>,
     <<"q", "u", "o", "t", ";">>, <<"#", "3", "9", ";">>}
StartsWith(s, prefix) ==
    Len(s) >= Len(prefix) /\ SubSeq(s, 1, Len(prefix)) = prefix
\* no markup character of the user's is left in the body
NoRawMarkup(html) ==
    \A i \in DOMAIN html :
        /\ html[i] \notin MarkupChars
        /\ html[i] = "&" =>
               \E t \in EntityTails : StartsWith(SubSeq(html, i + 1, Len(html)), t)

\* C7 as stated: the HTML body handed to sendMail by /contact and /preregister
\* holds no '<', '>', '&', double or single quote that comes from name, email or
\* message: each is replaced by its entity.
MailBodyEscaped ==
    \A r \in Requests : r.mail.sent => NoRawMarkup(r.mail.html)

\* a required field that is no string, or is empty once trimmed
Unusable(v) == ~IsString(v) \/ Trim(v.s) = <<>>
RequiredFields(route) ==
    CASE route = "chat" -> {"message"}
      [] route = "preregister" -> {"email"}
      [] route = "contact" -> {"name", "email", "message"}

\* C9 as stated, on a server with every configuration value present: a /chat,
\* /preregister or /contact request, on a route that exists, with a required
\* field missing, not a string or blank calls no service and is answered 400 with
\* a JSON {error}.
RequiredFieldsChecked ==
    \A r \in Requests :
        (/\ env \in FullConfig
         /\ r.route \in MailRoutes \cup {"chat"}
         /\ Registered(variant, r.route) /\ ~Rejected(r)
         /\ \E f \in RequiredFields(r.route) : Unusable(r.body[f])) =>
            /\ ExternalCalls(r) = 0
            /\ r.pc = "done" => ErrorJson(r, 400)

\* the records a CSV reader finds in a text: the line ends outside quoted fields
\* (those with an even number of double quotes before them)
CsvRecords(text) ==
    Cardinality({i \in DOMAIN text :
                    /\ text[i] = "\n"
                    /\ Cardinality({j \in 1..(i - 1) : text[j] = "\""}) % 2 = 0})

\* C8 as stated: the survey log is the header row followed by one data row for
\* each /survey request answered with HTTP 200.
SurveyLogMatchesRequests ==
    IF csv.exists
    THEN /\ StartsWith(csv.content, CsvHeader)
         /\ CsvRecords(csv.content) = 1 + surveyOk
    ELSE surveyOk = 0

\* C11 as stated: a request whose Origin header is there and is none of
\* allowedOrigins is answered with the CORS error in the step it arrives: it is
\* never handed to a limiter or a handler, and that step leaves the limiter
\* counts, the upload directory, the survey log and the requests in flight as
\* they were (no body parsed, no file, no row, no service call); a request
\* without Origin header or with an allowed one is not turned away by cors.
OriginCheckedFirst ==
    [][\A r \in Requests' :
          IF r.origin # NoOrigin /\ r.origin \notin allowedOrigins
          THEN /\ r = done' /\ r.resp = CorsRejected
               /\ r.ev = <<"send">> /\ r.win = "none" /\ r.file = 0 /\ ~r.mail.sent
               /\ UNCHANGED <<limiter, files, csv, writeFaults, inflight, surveyOk>>
          ELSE r.resp # CorsRejected
      ]_vars

\* the finished request went through an upload route and multer stored its file
FinishedWithFile == Finished /\ done.route \in UploadRoutes /\ done.file # 0

\* the positions of the delete attempts and of the answer in a request's trace
UnlinkAt(r) == {i \in DOMAIN r.ev : r.ev[i] \in {"unlink_ok", "unlink_fail"}}
SendAt(r) == {i \in DOMAIN r.ev : r.ev[i] = "send"}

\* C12: a request to /analyze or /analyze-style that has an uploaded file has,
\* when its handling ends, had the delete of that file attempted exactly once
\* (not zero times, not twice), whichever way the handler was left.
DeleteAttemptedExactlyOnce ==
    FinishedWithFile => UnlinkAttempts(done) = 1

\* C13: when a delete of the uploaded file failed, the answer is the one the
\* provider call decided (200 with the provider's text after a successful call,
\* the fixed 500 after a failed one), and nothing was thrown out of the handler.
DeleteFailureKeepsOutcome ==
    (FinishedWithFile /\ Count(done.ev, "unlink_fail") > 0) =>
        /\ ~done.uncaught
        /\ done.primary = "ok" =>
               done.resp = Json(200, SuccessKey(done.route), "PROVIDER_TEXT")
        /\ done.primary = "fail" =>
               done.resp = Json(500, "error", ErrorText(variant, done.route, done.err))

\* C14: a request to /analyze or /analyze-style that has an uploaded file has
\* the delete of that file attempted before its answer goes out: in the finished
\* request's trace there is a delete attempt, and every delete attempt stands
\* before the answer.
ReleasedBeforeResponse ==
    FinishedWithFile =>
        /\ UnlinkAt(done) # {}
        /\ \A i \in UnlinkAt(done), j \in SendAt(done) : i < j

====
